---------------------------- MODULE Spec2Model ----------------------------
(***************************************************************************)
(* Model of notebooks/"Bayesian Optimisation Over Molecules.ipynb":        *)
(* the Bayesian optimisation loop over a discrete heldout pool, compared   *)
(* against a random policy, repeated over N_TRIALS trials.                 *)
(*                                                                         *)
(* A molecule is identified with its row number 1..N in the dataset X, so  *)
(* a tensor of inputs is a sequence of row numbers and a tensor of labels  *)
(* a sequence of integers.  Tensors are never modified in place by the     *)
(* notebook (torch.cat builds a new tensor and the name is rebound), so a  *)
(* tensor is a value.  Positions in a tensor are 0-based as in Python.     *)
(*                                                                         *)
(* The fitted GP and the Expected Improvement rule are numerical black     *)
(* boxes: the acquisition function is an arbitrary map from the molecules   *)
(* it is evaluated on (those of the pool) to scores in 0..MaxScore, chosen *)
(* afresh at every iteration.                                              *)
(***************************************************************************)
EXTENDS Integers, Sequences, FiniteSets, TLC

\* ---------------------------------------------------------------- bounds
\* number of rows of the dataset (len(y))
N == 4
\* labels of the dataset are drawn from 1..MaxLabel
MaxLabel == 2
\* acquisition scores are drawn from 0..MaxScore
MaxScore == 1
\* rounds of BayesOpt per trial (20 in the notebook); N - 1 rounds use up the
\* pool left by an initial train set of one row
N_ITERS == 3
\* number of random trials (20 in the notebook)
N_TRIALS == 2

Rows == 1..N
Labels == 1..MaxLabel
Scores == 0..MaxScore

VARIABLES
    y,                      \* loader.labels: row -> label (X is the identity on rows)
    holdout_set_size,       \* test_size of train_test_split, as an absolute count
    pc,                     \* position in the cell
    error,                  \* the exception that ended the run, "none" otherwise
    trial, iteration,       \* the loop counters
    train_x_ei, train_y_ei,
    heldout_x_ei, heldout_y_ei,
    heldout_x_random, heldout_y_random,
    best_observed_value_ei,
    best_observed_ei, best_random,
    best_observed_all_ei, best_random_all,
    new_x_ei, new_obj_ei,   \* last results of optimize_acqf_and_get_observation
    model_ei,               \* the GP: the data it is conditioned on and its state dict
    EI, best_f,             \* the ExpectedImprovement object: its score on each row it
                            \* is called on during the selection, and its best_f
    acq_vals, acq_calls, best_idx,   \* locals of optimize_acqf_and_get_observation
    index, next_random_best,         \* locals of update_random_observations
    selected_ei, selected_random,    \* history: rows chosen by each policy in this trial
    rng,                    \* torch's default generator: the number of draws it has served
    kernel_x, kernel_z,     \* the two fingerprint vectors handed to the kernel
    kernel_k                \* the kernel's value, a fraction << numerator, denominator >>

vars == << y, holdout_set_size, pc, error, trial, iteration,
           train_x_ei, train_y_ei, heldout_x_ei, heldout_y_ei,
           heldout_x_random, heldout_y_random, best_observed_value_ei,
           best_observed_ei, best_random, best_observed_all_ei, best_random_all,
           new_x_ei, new_obj_ei, model_ei, EI, best_f,
           acq_vals, acq_calls, best_idx, index, next_random_best,
           selected_ei, selected_random, rng, kernel_x, kernel_z, kernel_k >>

\* ------------------------------------------------------------ helpers
Range(s) == { s[i] : i \in 1..Len(s) }

Injective(s) == \A i, j \in 1..Len(s) : s[i] = s[j] => i = j

\* Python slice s[a:b] on a 0-based sequence, 0 <= a, b
PySlice(s, a, b) == SubSeq(s, a + 1, IF b > Len(s) THEN Len(s) ELSE b)

\* Python s[i], 0-based
PyAt(s, i) == s[i + 1]

\* the labels of a sequence of rows: y[rows]
LabelsOf(rows) == [ i \in 1..Len(rows) |-> y[rows[i]] ]

\* the first element taken for the maximum
NpMax_first(s) == s[1]

\* np.max(a) / tensor.max() of a non-empty sequence
RECURSIVE NpMax(_)
NpMax(s) ==
    IF Len(s) = 1 THEN s[1]
    ELSE LET m == NpMax(Tail(s)) IN IF s[1] >= m THEN s[1] ELSE m

\* the new label taken whatever the best so far
PyMax_new(a, b) == b

\* Python builtin max(a, b): b only when b > a
PyMax(a, b) == IF b > a THEN b ELSE a

\* the new label taken whatever the best so far
TorchMax_new(a, b) == a

\* the best so far kept whatever the new label
TorchMax_old(a, b) == b

\* torch.max(a, b): the elementwise maximum
TorchMax(a, b) == IF a >= b THEN a ELSE b

\* argmin in place of argmax
ArgMax_min(vals) ==
    (CHOOSE i \in 1..Len(vals) :
        /\ \A j \in 1..Len(vals) : vals[j] >= vals[i]
        /\ \A j \in 1..(i - 1) : vals[j] > vals[i]) - 1

\* the last maximal value in place of the first
ArgMax_last(vals) ==
    (CHOOSE i \in 1..Len(vals) :
        /\ \A j \in 1..Len(vals) : vals[j] <= vals[i]
        /\ \A j \in (i + 1)..Len(vals) : vals[j] < vals[i]) - 1

\* torch.argmax of a non-empty 1-d tensor, 0-based: the first maximal value
ArgMax(vals) ==
    (CHOOSE i \in 1..Len(vals) :
        /\ \A j \in 1..Len(vals) : vals[j] <= vals[i]
        /\ \A j \in 1..(i - 1) : vals[j] < vals[i]) - 1

\* torch.cat((t[:i+1], t[i+2:]), axis=0): the slices off by one
RemoveAt_next(t, i) == PySlice(t, 0, i + 1) \o PySlice(t, i + 2, Len(t))

\* the pool handed back as it came: selection with replacement
RemoveAt_keep(t, i) == t

\* torch.cat((t[:i], t[i+1:]), axis=0)
RemoveAt(t, i) == PySlice(t, 0, i) \o PySlice(t, i + 1, Len(t))

\* range(lo, hi) one short
PyRange_short(lo, hi) == lo..(hi - 2)

\* Python range(lo, hi)
PyRange(lo, hi) == lo..(hi - 1)

\* the permutations of the rows drawn by the shuffle of train_test_split
Perms == { p \in [Rows -> Rows] : \A i, j \in Rows : p[i] = p[j] => i = j }

\* train_test_split(X, y, test_size=n_test) under the permutation p:
\* the first n_test rows of p are the test rows, the rest the train rows
TrainTestSplit(p, n_test) ==
    LET test  == SubSeq(p, 1, n_test)
        train == SubSeq(p, n_test + 1, N)
    IN  [ train_x |-> train, heldout_x |-> test,
          train_y |-> LabelsOf(train), heldout_y |-> LabelsOf(test) ]

\* initialize_model(train_x, train_obj, state_dict): a fresh, unfitted model
\* conditioned on the train set, carrying the state dict it was given
DefaultState == << 0, 0 >>
initialize_model(tx, ty, state_dict) ==
    [ train_x |-> tx, train_y |-> ty, state_dict |-> state_dict, fitted |-> FALSE ]

NoModel == [ train_x |-> << >>, train_y |-> << >>, state_dict |-> DefaultState,
             fitted |-> FALSE ]

\* optimize_acqf_and_get_observation: acq_func maps a row to its score
AcqVals(acq_func, heldout_inputs, heldout_outputs) ==
    [ i \in 1..Len(heldout_outputs) |-> acq_func[heldout_inputs[i]] ]

AcqCalls(heldout_inputs, heldout_outputs) ==
    [ i \in 1..Len(heldout_outputs) |-> heldout_inputs[i] ]


\* the selected row removed from the inputs, the first label from the outputs
optimize_acqf_and_get_observation_first(acq_func, heldout_inputs, heldout_outputs) ==
    LET vals == AcqVals(acq_func, heldout_inputs, heldout_outputs)
        b    == ArgMax(vals)
    IN  [ new_x   |-> PyAt(heldout_inputs, b),
          new_obj |-> PyAt(heldout_outputs, b),
          heldout_inputs  |-> RemoveAt(heldout_inputs, b),
          heldout_outputs |-> RemoveAt(heldout_outputs, 0),
          acq_vals |-> vals, best_idx |-> b ]

\* the value returned by optimize_acqf_and_get_observation on a non-empty pool
optimize_acqf_and_get_observation(acq_func, heldout_inputs, heldout_outputs) ==
    LET vals == AcqVals(acq_func, heldout_inputs, heldout_outputs)
        b    == ArgMax(vals)
    IN  [ new_x   |-> PyAt(heldout_inputs, b),
          new_obj |-> PyAt(heldout_outputs, b),
          heldout_inputs  |-> RemoveAt(heldout_inputs, b),
          heldout_outputs |-> RemoveAt(heldout_outputs, b),
          acq_vals |-> vals, best_idx |-> b ]

\* the drawn label observed but the pool handed back as it came
update_random_observations_keep(best, heldout_inputs, heldout_outputs, idx) ==
    LET nxt == PyAt(heldout_outputs, idx)
    IN  [ best_random |-> Append(best, PyMax(best[Len(best)], nxt)),
          heldout_inputs  |-> heldout_inputs,
          heldout_outputs |-> heldout_outputs,
          next_random_best |-> nxt,
          row |-> PyAt(heldout_inputs, idx) ]

\* the value returned by update_random_observations when randperm puts idx first
update_random_observations(best, heldout_inputs, heldout_outputs, idx) ==
    LET nxt == PyAt(heldout_outputs, idx)
    IN  [ best_random |-> Append(best, PyMax(best[Len(best)], nxt)),
          heldout_inputs  |-> RemoveAt(heldout_inputs, idx),
          heldout_outputs |-> RemoveAt(heldout_outputs, idx),
          next_random_best |-> nxt,
          row |-> PyAt(heldout_inputs, idx) ]

\* ---------------------------------------------------------------- state
gpLocals == << EI, acq_vals, acq_calls, best_idx >>
rndLocals == << index, next_random_best >>
config == << y, holdout_set_size >>
results == << best_observed_all_ei, best_random_all >>
gpSide == << train_x_ei, train_y_ei, heldout_x_ei, heldout_y_ei >>
rndSide == << heldout_x_random, heldout_y_random >>
kernelVars == << kernel_x, kernel_z, kernel_k >>

NoLocals ==
    /\ EI = << >> /\ acq_vals = << >> /\ acq_calls = << >> /\ best_idx = -1
    /\ index = -1 /\ next_random_best = 0

\* the kernel is not being evaluated
NoKernel == kernel_x = << >> /\ kernel_z = << >> /\ kernel_k = << 0, 1 >>

\* the cell before the first trial: the dataset is loaded, the lists are empty
Init ==
    /\ y \in [Rows -> Labels]
    /\ holdout_set_size \in 1..(N - 1)
    /\ pc = "trial" /\ error = "none"
    /\ trial = 1 /\ iteration = 0
    /\ train_x_ei = << >> /\ train_y_ei = << >>
    /\ heldout_x_ei = << >> /\ heldout_y_ei = << >>
    /\ heldout_x_random = << >> /\ heldout_y_random = << >>
    /\ best_observed_value_ei = 0
    /\ best_observed_ei = << >> /\ best_random = << >>
    /\ best_observed_all_ei = << >> /\ best_random_all = << >>
    /\ new_x_ei = 0 /\ new_obj_ei = 0
    /\ model_ei = NoModel /\ best_f = 0
    /\ NoLocals /\ NoKernel /\ rng = 0
    /\ selected_ei = << >> /\ selected_random = << >>

\* lines 221-243: the head of the trial loop, the split, the first model
StartTrial ==
    /\ pc = "trial" /\ trial \in PyRange(1, N_TRIALS + 1)
    /\ \E p \in Perms :
        LET s == TrainTestSplit(p, holdout_set_size) IN
        /\ train_x_ei' = s.train_x /\ train_y_ei' = s.train_y
        /\ heldout_x_ei' = s.heldout_x /\ heldout_y_ei' = s.heldout_y
        /\ best_observed_value_ei' = NpMax(s.train_y)
        /\ heldout_x_random' = s.heldout_x
        /\ heldout_y_random' = s.heldout_y
        /\ model_ei' = initialize_model(s.train_x, s.train_y, DefaultState)
        /\ best_observed_ei' = << NpMax(s.train_y) >>
        /\ best_random' = << NpMax(s.train_y) >>
    /\ iteration' = 1
    /\ selected_ei' = << >> /\ selected_random' = << >>
    /\ pc' = "iter"
    /\ UNCHANGED << config, kernelVars, rng, error, trial, results, new_x_ei, new_obj_ei, best_f,
                    gpLocals, rndLocals >>

\* lines 246-251: the head of the iteration loop and fit_gpytorch_model(mll_ei)
Fit ==
    /\ pc = "iter" /\ iteration \in PyRange(1, N_ITERS + 1)
    /\ model_ei' = [ model_ei EXCEPT !.state_dict = << trial, iteration >>,
                                     !.fitted = TRUE ]
    /\ pc' = "select"
    /\ UNCHANGED << config, kernelVars, rng, error, trial, iteration, gpSide, rndSide,
                    best_observed_value_ei, best_observed_ei, best_random, results,
                    new_x_ei, new_obj_ei, best_f, gpLocals, rndLocals,
                    selected_ei, selected_random >>

\* the selected row deleted in place from the tensors both pools started as
OptimizeStep_alias(from, to) ==
    /\ pc = from /\ Len(heldout_y_ei) > 0
    /\ best_f' = NpMax(train_y_ei)
    /\ \E acq_func \in [Range(heldout_x_ei) -> Scores] :
        LET r == optimize_acqf_and_get_observation(acq_func, heldout_x_ei, heldout_y_ei) IN
        /\ new_x_ei' = r.new_x /\ new_obj_ei' = r.new_obj
        /\ heldout_x_ei' = r.heldout_inputs /\ heldout_y_ei' = r.heldout_outputs
        /\ heldout_x_random' = r.heldout_inputs /\ heldout_y_random' = r.heldout_outputs
        /\ EI' = acq_func
        /\ acq_vals' = r.acq_vals /\ best_idx' = r.best_idx
        /\ acq_calls' = AcqCalls(heldout_x_ei, heldout_y_ei)
        /\ selected_ei' = Append(selected_ei, r.new_x)
    /\ pc' = to
    /\ UNCHANGED << config, kernelVars, rng, error, trial, iteration, train_x_ei, train_y_ei,
                    best_observed_value_ei, best_observed_ei, best_random, results,
                    model_ei, rndLocals, selected_random >>

\* lines 254-258 (and the function, lines 129-155): the acquisition rule is
\* built and the selection from the GP pool is made and unpacked
OptimizeStep(from, to) ==
    /\ pc = from /\ Len(heldout_y_ei) > 0
    /\ best_f' = NpMax(train_y_ei)
    /\ \E acq_func \in [Range(heldout_x_ei) -> Scores] :
        LET r == optimize_acqf_and_get_observation(acq_func, heldout_x_ei, heldout_y_ei) IN
        /\ new_x_ei' = r.new_x /\ new_obj_ei' = r.new_obj
        /\ heldout_x_ei' = r.heldout_inputs /\ heldout_y_ei' = r.heldout_outputs
        /\ EI' = acq_func
        /\ acq_vals' = r.acq_vals /\ best_idx' = r.best_idx
        /\ acq_calls' = AcqCalls(heldout_x_ei, heldout_y_ei)
        /\ selected_ei' = Append(selected_ei, r.new_x)
    /\ pc' = to
    /\ UNCHANGED << config, kernelVars, rng, error, trial, iteration, train_x_ei, train_y_ei, rndSide,
                    best_observed_value_ei, best_observed_ei, best_random, results,
                    model_ei, rndLocals, selected_random >>

\* torch.argmax of a tensor with no elements raises; the exception class
\* depends on the torch release (IndexError in recent ones, RuntimeError before)
ArgMaxEmptyErrors == { "IndexError", "RuntimeError" }

\* lines 142-147 on an empty pool: the loop body never runs, acq_vals is the
\* empty tensor and torch.argmax of it raises before anything is returned;
\* nothing catches it, so the cell ends
OptimizeEmptyStep(from) ==
    /\ pc = from /\ Len(heldout_y_ei) = 0
    /\ best_f' = NpMax(train_y_ei)
    /\ error' \in ArgMaxEmptyErrors /\ pc' = "error"
    /\ UNCHANGED << config, kernelVars, rng, trial, iteration, gpSide, rndSide,
                    best_observed_value_ei, best_observed_ei, best_random, results,
                    new_x_ei, new_obj_ei, model_ei, gpLocals, rndLocals,
                    selected_ei, selected_random >>

Select == OptimizeStep("select", "update_train")

SelectEmpty == OptimizeEmptyStep("select")

\* the selected row joins the train inputs but its label is left out
UpdateTrain_forget ==
    /\ pc = "update_train"
    /\ train_x_ei' = train_x_ei \o << new_x_ei >>
    /\ train_y_ei' = train_y_ei
    /\ EI' = << >> /\ acq_vals' = << >> /\ acq_calls' = << >> /\ best_idx' = -1
    /\ pc' = "random"
    /\ UNCHANGED << config, kernelVars, rng, error, trial, iteration, heldout_x_ei, heldout_y_ei, rndSide,
                    best_observed_value_ei, best_observed_ei, best_random, results,
                    new_x_ei, new_obj_ei, model_ei, best_f, rndLocals,
                    selected_ei, selected_random >>

\* lines 260-262: update training points
UpdateTrain ==
    /\ pc = "update_train"
    /\ train_x_ei' = train_x_ei \o << new_x_ei >>
    /\ train_y_ei' = train_y_ei \o << new_obj_ei >>
    /\ EI' = << >> /\ acq_vals' = << >> /\ acq_calls' = << >> /\ best_idx' = -1
    /\ pc' = "random"
    /\ UNCHANGED << config, kernelVars, rng, error, trial, iteration, heldout_x_ei, heldout_y_ei, rndSide,
                    best_observed_value_ei, best_observed_ei, best_random, results,
                    new_x_ei, new_obj_ei, model_ei, best_f, rndLocals,
                    selected_ei, selected_random >>

\* lines 264-267 (and the function, lines 158-180): update random search progress
RandomStep(from, to) ==
    /\ pc = from /\ Len(heldout_y_random) > 0
    /\ \E idx \in 0..(Len(heldout_y_random) - 1) :
        LET r == update_random_observations(best_random, heldout_x_random,
                                            heldout_y_random, idx) IN
        /\ best_random' = r.best_random
        /\ heldout_x_random' = r.heldout_inputs
        /\ heldout_y_random' = r.heldout_outputs
        /\ index' = idx /\ next_random_best' = r.next_random_best
        /\ selected_random' = Append(selected_random, r.row)
    /\ rng' = rng + 1
    /\ pc' = to
    /\ UNCHANGED << config, kernelVars, error, trial, iteration, gpSide,
                    best_observed_value_ei, best_observed_ei, results,
                    new_x_ei, new_obj_ei, model_ei, best_f, gpLocals, selected_ei >>

\* an empty pool answered with the stale best value in place of an exception
RandomEmptyStep_stale(from) ==
    /\ pc = from /\ Len(heldout_y_random) = 0
    /\ best_random' = Append(best_random, best_random[Len(best_random)])
    /\ pc' = "returned"
    /\ UNCHANGED << config, kernelVars, rng, error, trial, iteration, gpSide, rndSide,
                    best_observed_value_ei, best_observed_ei, results,
                    new_x_ei, new_obj_ei, model_ei, best_f, gpLocals, rndLocals,
                    selected_ei, selected_random >>

\* line 172 on an empty pool: torch.randperm(0) is empty and [0] raises
\* IndexError before line 174 appends; nothing catches it, so the cell ends
RandomEmptyStep(from) ==
    /\ pc = from /\ Len(heldout_y_random) = 0
    /\ error' = "IndexError" /\ pc' = "error"
    /\ UNCHANGED << config, kernelVars, rng, trial, iteration, gpSide, rndSide,
                    best_observed_value_ei, best_observed_ei, best_random, results,
                    new_x_ei, new_obj_ei, model_ei, best_f, gpLocals, rndLocals,
                    selected_ei, selected_random >>

\* in the loop the random pool is never empty here: the GP pool, one element
\* shorter at this point, would have ended the cell at line 256
UpdateRandom == RandomStep("random", "trace")

\* the GP trace left without an entry for the iteration
UpdateTrace_skip ==
    /\ pc = "trace"
    /\ best_observed_ei' = best_observed_ei
    /\ index' = -1 /\ next_random_best' = 0
    /\ pc' = "reinit"
    /\ UNCHANGED << config, kernelVars, rng, error, trial, iteration, gpSide, rndSide,
                    best_observed_value_ei, best_random, results,
                    new_x_ei, new_obj_ei, model_ei, best_f, gpLocals,
                    selected_ei, selected_random >>

\* lines 268-269: the GP trace
UpdateTrace ==
    /\ pc = "trace"
    /\ best_observed_ei' =
          Append(best_observed_ei,
                 TorchMax(new_obj_ei, best_observed_ei[Len(best_observed_ei)]))
    /\ index' = -1 /\ next_random_best' = 0
    /\ pc' = "reinit"
    /\ UNCHANGED << config, kernelVars, rng, error, trial, iteration, gpSide, rndSide,
                    best_observed_value_ei, best_random, results,
                    new_x_ei, new_obj_ei, model_ei, best_f, gpLocals,
                    selected_ei, selected_random >>

\* the model of the last fit kept as it is, no model built on the new train set
Reinit_stale ==
    /\ pc = "reinit"
    /\ model_ei' = model_ei
    /\ iteration' = iteration + 1
    /\ pc' = "iter"
    /\ UNCHANGED << config, kernelVars, rng, error, trial, gpSide, rndSide,
                    best_observed_value_ei, best_observed_ei, best_random, results,
                    new_x_ei, new_obj_ei, best_f, gpLocals, rndLocals,
                    selected_ei, selected_random >>

\* the new model built without the state dict of the last fit
Reinit_cold ==
    /\ pc = "reinit"
    /\ model_ei' = initialize_model(train_x_ei, train_y_ei, DefaultState)
    /\ iteration' = iteration + 1
    /\ pc' = "iter"
    /\ UNCHANGED << config, kernelVars, rng, error, trial, gpSide, rndSide,
                    best_observed_value_ei, best_observed_ei, best_random, results,
                    new_x_ei, new_obj_ei, best_f, gpLocals, rndLocals,
                    selected_ei, selected_random >>

\* lines 271-277: reinitialise the model with the current state dict
Reinit ==
    /\ pc = "reinit"
    /\ model_ei' = initialize_model(train_x_ei, train_y_ei, model_ei.state_dict)
    /\ iteration' = iteration + 1
    /\ pc' = "iter"
    /\ UNCHANGED << config, kernelVars, rng, error, trial, gpSide, rndSide,
                    best_observed_value_ei, best_observed_ei, best_random, results,
                    new_x_ei, new_obj_ei, best_f, gpLocals, rndLocals,
                    selected_ei, selected_random >>

\* lines 290-291: the iteration loop is over, the traces join the result
EndTrial ==
    /\ pc = "iter" /\ iteration \notin PyRange(1, N_ITERS + 1)
    /\ best_observed_all_ei' = Append(best_observed_all_ei, best_observed_ei)
    /\ best_random_all' = Append(best_random_all, best_random)
    /\ trial' = trial + 1
    /\ pc' = "trial"
    /\ UNCHANGED << config, kernelVars, rng, error, iteration, gpSide, rndSide,
                    best_observed_value_ei, best_observed_ei, best_random,
                    new_x_ei, new_obj_ei, model_ei, best_f, gpLocals, rndLocals,
                    selected_ei, selected_random >>

\* line 221 once range(1, N_TRIALS + 1) is exhausted: the trial loop is over
Finish ==
    /\ pc = "trial" /\ trial \notin PyRange(1, N_TRIALS + 1)
    /\ pc' = "done"
    /\ UNCHANGED << config, kernelVars, rng, error, trial, iteration, gpSide, rndSide,
                    best_observed_value_ei, best_observed_ei, best_random, results,
                    new_x_ei, new_obj_ei, model_ei, best_f, gpLocals, rndLocals,
                    selected_ei, selected_random >>

Next ==
    \/ StartTrial \/ Fit \/ Select \/ SelectEmpty \/ UpdateTrain
    \/ UpdateRandom \/ UpdateTrace \/ Reinit
    \/ EndTrial \/ Finish

Spec == Init /\ [][Next]_vars


\* -------------------------------------------- the two helpers called directly
\* Any pool, the empty one included, handed once to either helper; the caller
\* rebinds the names as lines 256 and 265 do.
CallSites == { "call_optimize", "call_random" }

InitCall ==
    /\ y \in [Rows -> Labels]
    /\ holdout_set_size = N - 1
    /\ pc \in CallSites /\ error = "none"
    /\ trial = 1 /\ iteration = 1
    /\ \E p \in Perms, k \in 0..(N - 1) :
        /\ heldout_x_ei = SubSeq(p, 1, k) /\ heldout_y_ei = LabelsOf(SubSeq(p, 1, k))
        /\ heldout_x_random = SubSeq(p, 1, k)
        /\ heldout_y_random = LabelsOf(SubSeq(p, 1, k))
        /\ train_x_ei = SubSeq(p, k + 1, N) /\ train_y_ei = LabelsOf(SubSeq(p, k + 1, N))
    /\ best_observed_value_ei = NpMax(train_y_ei)
    /\ best_observed_ei = << best_observed_value_ei >>
    /\ best_random = << best_observed_value_ei >>
    /\ best_observed_all_ei = << >> /\ best_random_all = << >>
    /\ new_x_ei = 0 /\ new_obj_ei = 0
    /\ model_ei = initialize_model(train_x_ei, train_y_ei, DefaultState)
    /\ best_f = 0
    /\ NoLocals /\ NoKernel /\ rng = 0
    /\ selected_ei = << >> /\ selected_random = << >>

CallOptimize == OptimizeStep("call_optimize", "returned")

CallOptimizeEmpty == OptimizeEmptyStep("call_optimize")

CallRandom == RandomStep("call_random", "returned")

CallRandomEmpty == RandomEmptyStep("call_random")

NextCall == CallOptimize \/ CallOptimizeEmpty \/ CallRandom \/ CallRandomEmpty

SpecCall == InitCall /\ [][NextCall]_vars

\* the loop with every enabled step eventually taken: the cell runs to its end
FairSpec == Spec /\ WF_vars(Next)


\* ------------------------------------------------------------ properties
\* the split of the current trial has been made
SplitDone == Len(best_observed_ei) > 0

\* number of rows of the initial train set
NTrain == N - holdout_set_size

\* the rows of the initial train set of the current trial
InitialTrain == { train_x_ei[i] : i \in 1..NTrain }

\* the larger of two numbers
Max2(a, b) == IF a >= b THEN a ELSE b

NonDecreasing(s) == \A i \in 2..Len(s) : s[i] >= s[i - 1]

\* C1: whenever the split is made and no selected point is in flight between
\* the GP pool and the GP train set (that is, at initialisation and after every
\* transfer), the GP train rows and the GP heldout rows are disjoint, together
\* they are all rows, and |train| + |heldout| = N.
C1_GPPartition ==
    (SplitDone /\ pc # "update_train") =>
        /\ Range(train_x_ei) \cap Range(heldout_x_ei) = {}
        /\ Range(train_x_ei) \cup Range(heldout_x_ei) = Rows
        /\ Len(train_x_ei) + Len(heldout_x_ei) = N
        /\ Len(train_y_ei) = Len(train_x_ei) /\ Len(heldout_y_ei) = Len(heldout_x_ei)

\* two transfers have been made in the second trial
C1_Witness ==
    /\ trial = 2 /\ pc = "random" /\ iteration = 2
    /\ Len(train_x_ei) = NTrain + 2 /\ Len(heldout_x_ei) = 1

\* C2: for each policy, the rows selected so far in the trial are pairwise
\* different, none of them is in that policy's pool, and no pool holds a row twice.
C2_NoReplacement ==
    /\ Injective(selected_ei) /\ Injective(heldout_x_ei)
    /\ Range(selected_ei) \cap Range(heldout_x_ei) = {}
    /\ Injective(selected_random) /\ Injective(heldout_x_random)
    /\ Range(selected_random) \cap Range(heldout_x_random) = {}

\* both policies have selected twice, not the same rows, and a row is left
C2_Witness ==
    /\ Len(selected_ei) = 2 /\ Len(selected_random) = 2
    /\ Range(selected_ei) # Range(selected_random)
    /\ Len(heldout_x_ei) = 1 /\ Len(heldout_x_random) = 1

\* C3: both traces of the current trial, and every trace in the result, never decrease.
C3_Monotonic ==
    /\ NonDecreasing(best_observed_ei) /\ NonDecreasing(best_random)
    /\ \A t \in 1..Len(best_observed_all_ei) : NonDecreasing(best_observed_all_ei[t])
    /\ \A t \in 1..Len(best_random_all) : NonDecreasing(best_random_all[t])

\* each policy has just observed a label below its best so far
C3_Witness ==
    /\ pc = "reinit" /\ Len(best_observed_ei) = 3 /\ Len(best_random) = 3
    /\ new_obj_ei < best_observed_ei[2]
    /\ y[selected_random[2]] < best_random[2]
    /\ best_random[2] > best_random[1]

\* a helper is about to be called on a pool with zero elements
EmptyOptimizeCall == pc \in { "select", "call_optimize" } /\ Len(heldout_y_ei) = 0
EmptyRandomCall == pc \in { "random", "call_random" } /\ Len(heldout_y_random) = 0

\* the step returns no point, appends to no trace and changes no pool
NothingReturned ==
    UNCHANGED << new_x_ei, new_obj_ei, best_observed_ei, best_random,
                 gpSide, rndSide, selected_ei, selected_random, results >>

C5_RandomPartition ==
    SplitDone =>
        LET observed_random == InitialTrain \cup Range(selected_random) IN
        /\ observed_random \cap Range(heldout_x_random) = {}
        /\ observed_random \cup Range(heldout_x_random) = Rows
        /\ Cardinality(observed_random) + Len(heldout_x_random) = N
        /\ Len(heldout_x_random) = holdout_set_size - (Len(best_random) - 1)
        /\ Len(heldout_y_random) = Len(heldout_x_random)

\* the random policy has drawn twice, and not what the GP policy selected
C5_Witness ==
    /\ trial = 2 /\ pc = "iter" /\ Len(selected_random) = 2
    /\ Len(heldout_x_random) = 1
    /\ heldout_x_random # heldout_x_ei

\* the step that calls optimize_acqf_and_get_observation on a non-empty pool
SelectStep == pc = "select" /\ pc' = "update_train"

\* C6: a selection from a non-empty pool evaluates the acquisition function
\* once on each row of the pool, returns a row of the pool whose score is at
\* least the score of every row of the pool, and returns that row's label.
C6_ExhaustiveArgMax ==
    [][ SelectStep =>
          /\ acq_calls' = heldout_x_ei
          /\ Len(acq_vals') = Len(heldout_x_ei)
          /\ \A k \in 1..Len(heldout_x_ei) : acq_vals'[k] = EI'[heldout_x_ei[k]]
          /\ new_x_ei' \in Range(heldout_x_ei)
          /\ \A r \in Range(heldout_x_ei) : EI'[new_x_ei'] >= EI'[r]
          /\ new_obj_ei' = y[new_x_ei']
      ]_vars

\* a pool of three was scored, and the last row, alone the best, was returned
C6_Witness ==
    /\ pc = "update_train" /\ Len(acq_vals) = 3 /\ best_idx = 2
    /\ acq_vals[3] > acq_vals[1] /\ acq_vals[3] > acq_vals[2]
    /\ y[new_x_ei] < best_f

\* C7: among the pool positions with the maximal score, the selection takes
\* the lowest one.
C7_FirstOccurrence ==
    [][ SelectStep =>
          /\ \A j \in 1..Len(heldout_x_ei) :
                (\A k \in 1..Len(heldout_x_ei) : acq_vals'[k] <= acq_vals'[j])
                    => best_idx' + 1 <= j
          /\ \A k \in 1..Len(heldout_x_ei) : acq_vals'[k] <= acq_vals'[best_idx' + 1]
          /\ new_x_ei' = heldout_x_ei[best_idx' + 1]
      ]_vars

\* two positions tie for the best score, neither is the first of the pool
C7_Witness ==
    /\ pc = "update_train" /\ Len(acq_vals) = 3 /\ best_idx = 1
    /\ acq_vals[2] = acq_vals[3] /\ acq_vals[1] < acq_vals[2]

\* C8: every entry of a trace after the first is the larger of the entry
\* before it and the label of the row its policy selected at that iteration,
\* and each completed iteration has added one entry to each trace.
C8_TraceRecurrence ==
    SplitDone =>
        /\ Len(best_random) = 1 + Len(selected_random)
        /\ \A i \in 1..Len(selected_random) :
              best_random[i + 1] = Max2(best_random[i], y[selected_random[i]])
        /\ Len(best_observed_ei) <= 1 + Len(selected_ei)
        /\ \A i \in 1..(Len(best_observed_ei) - 1) :
              best_observed_ei[i + 1] = Max2(best_observed_ei[i], y[selected_ei[i]])
        /\ pc \in { "iter", "trial", "done" } =>
              /\ Len(best_observed_ei) = iteration
              /\ Len(best_random) = iteration
              /\ Len(selected_ei) = iteration - 1

\* two iterations are complete; the GP trace rose at the second, the random
\* trace rose at the first and then met a lower label
C8_Witness ==
    /\ pc = "iter" /\ iteration = 3
    /\ best_observed_ei[3] > best_observed_ei[2]
    /\ best_random[2] > best_random[1] /\ y[selected_random[2]] < best_random[2]

\* C9: entry 0 of both traces is the largest label of the initial train set,
\* and right after the split the random pool is the GP pool, which is the
\* rows outside the initial train set.
C9_IdenticalStart ==
    SplitDone =>
        /\ best_observed_ei[1] = best_random[1]
        /\ \E r \in InitialTrain : y[r] = best_observed_ei[1]
        /\ \A r \in InitialTrain : y[r] <= best_observed_ei[1]
        /\ (pc = "iter" /\ iteration = 1) =>
              /\ heldout_x_random = heldout_x_ei
              /\ heldout_y_random = heldout_y_ei
              /\ Range(heldout_x_ei) = Rows \ InitialTrain

\* a trial starts from a train set whose best label is not its first
C9_Witness ==
    /\ pc = "iter" /\ iteration = 1 /\ NTrain = 2
    /\ y[train_x_ei[1]] < y[train_x_ei[2]]
    /\ Len(heldout_x_ei) = 2

IsPrefix(s, t) == Len(s) <= Len(t) /\ SubSeq(t, 1, Len(s)) = s

\* no entry of a trace or of the result is changed or removed; at the head of
\* the trial loop the names are bound to new lists
AppendOnly ==
    /\ pc # "trial" =>
          /\ IsPrefix(best_observed_ei, best_observed_ei')
          /\ IsPrefix(best_random, best_random')
    /\ IsPrefix(best_observed_all_ei, best_observed_all_ei')
    /\ IsPrefix(best_random_all, best_random_all')

\* C10: when N_ITERS is at most the size of the initial pool the cell reaches
\* its end; a trial ends after exactly N_ITERS iterations with N_ITERS + 1
\* entries in each trace, both of which are then the last traces of the result;
\* traces and result only grow; at the end the result holds N_TRIALS traces
\* per policy.
C10_Termination ==
    /\ [](pc = "done" =>
            /\ error = "none"
            /\ Len(best_observed_all_ei) = N_TRIALS /\ Len(best_random_all) = N_TRIALS
            /\ \A t \in 1..N_TRIALS :
                  /\ Len(best_observed_all_ei[t]) = N_ITERS + 1
                  /\ Len(best_random_all[t]) = N_ITERS + 1)
    /\ []((pc = "trial" /\ trial > 1) =>
            /\ iteration = N_ITERS + 1 /\ Len(selected_ei) = N_ITERS
            /\ Len(selected_random) = N_ITERS
            /\ Len(best_observed_all_ei) = trial - 1 /\ Len(best_random_all) = trial - 1
            /\ best_observed_all_ei[trial - 1] = best_observed_ei
            /\ best_random_all[trial - 1] = best_random)
    /\ [][AppendOnly]_vars
    /\ (holdout_set_size >= N_ITERS => <>(pc = "done"))

\* the cell has ended with the pool used up and two different traces per policy
C10_Witness ==
    /\ pc = "done" /\ holdout_set_size = N_ITERS
    /\ Len(best_observed_all_ei) = N_TRIALS
    /\ best_observed_all_ei[1] # best_observed_all_ei[2]
    /\ best_random_all[1] # best_observed_all_ei[1]

\* the largest label of the whole dataset
MaxLabelOfDataset == CHOOSE m \in Range(y) : \A r \in Rows : y[r] <= m

\* the GP trace has an entry for every selection made so far in the trial
TraceUpToDate == Len(best_observed_ei) = 1 + Len(selected_ei)

\* C11: once the GP policy has used up its pool (in particular after N - 1
\* iterations from a train set of one row) the last entry of its trace is the
\* largest label of the whole dataset, whatever the acquisition scores were.
C11_ExhaustionReachesMax ==
    (SplitDone /\ TraceUpToDate /\ Len(heldout_x_ei) = 0) =>
        best_observed_ei[Len(best_observed_ei)] = MaxLabelOfDataset

\* one train row, N - 1 iterations, and the best row was the last one selected
C11_Witness ==
    /\ pc = "iter" /\ NTrain = 1 /\ iteration = N /\ Len(selected_ei) = N - 1
    /\ Len(heldout_x_ei) = 0
    /\ best_observed_ei[N - 1] < best_observed_ei[N]
    /\ best_observed_ei[N] = MaxLabelOfDataset

\* C12: trials share no mutable state: whatever ran before it, a trial starts
\* with every object it reads beyond the dataset and its own seed in its
\* initial state, the generator behind torch.randperm included, so that its
\* traces depend on its seed and the dataset alone.
C12_TrialIndependence ==
    (pc = "iter" /\ iteration = 1) => rng = 0

\* ------------------------------------------------- the fit may raise
\* line 251: fit_gpytorch_model(mll_ei) raises (a numerical failure of the
\* fit); no try/except surrounds lines 221-291, so the exception leaves both
\* loops and the cell ends
FitFails ==
    /\ pc = "iter" /\ iteration \in PyRange(1, N_ITERS + 1)
    /\ error' = "FitError" /\ pc' = "error"
    /\ UNCHANGED << config, kernelVars, rng, trial, iteration, gpSide, rndSide,
                    best_observed_value_ei, best_observed_ei, best_random, results,
                    new_x_ei, new_obj_ei, model_ei, best_f, gpLocals, rndLocals,
                    selected_ei, selected_random >>

NextFail == Next \/ FitFails

SpecFail == Init /\ [][NextFail]_vars

\* C13: a failure of the fit inside trial k ends trial k only: while trials
\* remain the harness has a next step to take (trial k + 1 starts).
C13_ErrorIsolation ==
    (pc = "error" /\ error = "FitError" /\ trial < N_TRIALS) => ENABLED NextFail

\* ------------------------------------------------------------ the kernel
\* TanimotoKernel lives in gauche.kernels.fingerprint_kernels.tanimoto_kernel,
\* which the notebook imports (line 74); it is modelled from its specified
\* formula k(x,z) = x.z / (|x|^2 + |z|^2 - x.z), with the value 1 when both
\* vectors are zero.  A value is an exact fraction << numerator, denominator >>.

\* length of a fingerprint vector
D == 3

Fingerprints == [1..D -> {0, 1}]

RECURSIVE DotUpTo(_, _, _)
DotUpTo(x, z, n) == IF n = 0 THEN 0 ELSE x[n] * z[n] + DotUpTo(x, z, n - 1)

\* x . z
Dot(x, z) == DotUpTo(x, z, D)

\* the denominator without the cross term subtracted
TanimotoKernel_nocross(x, z) ==
    LET den == Dot(x, x) + Dot(z, z)
    IN  IF den = 0 THEN << 1, 1 >> ELSE << Dot(x, z), den >>

TanimotoKernel(x, z) ==
    LET cross == Dot(x, z)
        den   == Dot(x, x) + Dot(z, z) - cross
    IN  IF den = 0 THEN << 1, 1 >> ELSE << cross, den >>

InitKernel ==
    /\ y = [r \in Rows |-> 1]
    /\ holdout_set_size = N - 1
    /\ pc = "kernel" /\ error = "none"
    /\ trial = 1 /\ iteration = 0
    /\ train_x_ei = << >> /\ train_y_ei = << >>
    /\ heldout_x_ei = << >> /\ heldout_y_ei = << >>
    /\ heldout_x_random = << >> /\ heldout_y_random = << >>
    /\ best_observed_value_ei = 0
    /\ best_observed_ei = << >> /\ best_random = << >>
    /\ best_observed_all_ei = << >> /\ best_random_all = << >>
    /\ new_x_ei = 0 /\ new_obj_ei = 0
    /\ model_ei = NoModel /\ best_f = 0
    /\ NoLocals /\ rng = 0
    /\ selected_ei = << >> /\ selected_random = << >>
    /\ kernel_x \in Fingerprints /\ kernel_z \in Fingerprints
    /\ kernel_k = << 0, 1 >>

\* the covariance module evaluates the kernel on a pair of vectors
EvaluateKernel ==
    /\ pc = "kernel"
    /\ kernel_k' = TanimotoKernel(kernel_x, kernel_z)
    /\ pc' = "kernel_done"
    /\ UNCHANGED << config, rng, error, trial, iteration, gpSide, rndSide,
                    best_observed_value_ei, best_observed_ei, best_random, results,
                    new_x_ei, new_obj_ei, model_ei, best_f, gpLocals, rndLocals,
                    selected_ei, selected_random, kernel_x, kernel_z >>

SpecKernel == InitKernel /\ [][EvaluateKernel]_vars

\* equality of two fractions
FracEq(a, b) == a[1] * b[2] = b[1] * a[2]

\* C14: for binary vectors of equal length the kernel's value is the same
\* with its arguments swapped, lies between 0 and 1, and is 1 on a pair of
\* equal nonzero vectors.
C14_KernelSymmetryBound ==
    pc = "kernel_done" =>
        /\ FracEq(kernel_k, TanimotoKernel(kernel_z, kernel_x))
        /\ kernel_k[2] > 0 /\ 0 <= kernel_k[1] /\ kernel_k[1] <= kernel_k[2]
        /\ (kernel_x = kernel_z /\ Dot(kernel_x, kernel_x) > 0) =>
              kernel_k[1] = kernel_k[2]

\* the kernel was evaluated on two different overlapping vectors
C14_Witness ==
    /\ pc = "kernel_done" /\ kernel_x # kernel_z
    /\ 0 < kernel_k[1] /\ kernel_k[1] < kernel_k[2]
    /\ Dot(kernel_x, kernel_x) # Dot(kernel_z, kernel_z)


\* the steps of one trial: the successors the loop body allows each position
StepOrder ==
    /\ pc = "trial"        => pc' \in { "iter", "done" }
    /\ pc = "iter"         => pc' \in { "select", "trial" }
    /\ pc = "select"       => pc' \in { "update_train", "error" }
    /\ pc = "update_train" => pc' = "random"
    /\ pc = "random"       => pc' = "trace"
    /\ pc = "trace"        => pc' = "reinit"
    /\ pc = "reinit"       => pc' = "iter"
    /\ pc \in { "done", "error" } => pc' = pc

\* the step that fits the model: an unfitted model becomes a fitted one on
\* the same train set
FitStep ==
    /\ ~ model_ei.fitted /\ model_ei'.fitted
    /\ model_ei'.train_x = model_ei.train_x /\ model_ei'.train_y = model_ei.train_y

\* the model is conditioned on exactly the GP train set, which is the initial
\* train rows followed by the rows selected in the earlier iterations
ModelCurrent ==
    /\ model_ei.train_x = train_x_ei /\ model_ei.train_y = train_y_ei
    /\ Len(train_x_ei) = NTrain + iteration - 1
    /\ Len(selected_ei) = iteration - 1
    /\ SubSeq(train_x_ei, NTrain + 1, Len(train_x_ei)) = selected_ei

\* C15: the steps of a trial follow one another only in the order of the loop
\* body (fit, select, update, then the next fit or the end of the trial);
\* a selection is entered only by a fit, and the fitted model it uses is
\* conditioned on exactly the current GP train set, of |train_0| + i - 1 rows
\* at iteration i.
C15_StepOrderNoStaleModel ==
    /\ [][ StepOrder /\ (pc' = "select" => pc = "iter" /\ FitStep) ]_vars
    /\ [](pc = "select" => model_ei.fitted /\ ModelCurrent)

\* the third selection of a trial is about to be made with a model fitted
\* on the initial row and the two rows selected before
C15_Witness ==
    /\ pc = "select" /\ iteration = 3 /\ NTrain = 1
    /\ model_ei.fitted /\ Len(model_ei.train_x) = 3
    /\ SubSeq(model_ei.train_x, 2, 3) = selected_ei

\* C16: the fit of iteration 1 of a trial starts from the default state, and
\* the fit of an iteration i >= 2 starts from the state the fit of iteration
\* i - 1 of the same trial produced; once fitted, the model carries the state
\* of its own trial and iteration.
C16_WarmStart ==
    /\ (pc = "iter" /\ iteration \in PyRange(1, N_ITERS + 1)) =>
          /\ ~ model_ei.fitted
          /\ model_ei.state_dict =
                IF iteration = 1 THEN DefaultState ELSE << trial, iteration - 1 >>
    /\ pc = "select" => model_ei.state_dict = << trial, iteration >>

\* the third fit of the second trial is about to start from the second fit
\* of that trial
C16_Witness ==
    /\ pc = "iter" /\ trial = 2 /\ iteration = 3
    /\ model_ei.state_dict = << 2, 2 >>


\* C17: a GP selection leaves the random policy's pool and trace as they
\* were, a random selection leaves the GP pool, the GP train set and the GP
\* trace as they were, and neither changes the dataset.
C17_IndependentPools ==
    [][ /\ pc = "select" => UNCHANGED << heldout_x_random, heldout_y_random, best_random, y >>
        /\ pc = "random" => UNCHANGED << heldout_x_ei, heldout_y_ei, train_x_ei, train_y_ei,
                                         best_observed_ei, y >>
      ]_vars

\* in the first iteration the two policies took different rows from the
\* pool they both started with
C17_Witness ==
    /\ pc = "trace" /\ iteration = 1
    /\ Len(heldout_x_ei) = Len(heldout_x_random)
    /\ heldout_x_ei # heldout_x_random
    /\ selected_ei # selected_random


\* v is the largest element of the non-empty sequence s
IsMaxOf(v, s) == v \in Range(s) /\ \A i \in 1..Len(s) : s[i] <= v

\* C18: at the start of an iteration the last entry of the GP trace is the
\* largest label of the GP train set, and it is the best_f the acquisition
\* rule of that iteration is given.
C18_TraceAgreesWithTrain ==
    /\ (pc \in { "iter", "select" } /\ iteration \in PyRange(1, N_ITERS + 1)) =>
          IsMaxOf(best_observed_ei[Len(best_observed_ei)], train_y_ei)
    /\ pc = "update_train" =>
          /\ best_f = best_observed_ei[Len(best_observed_ei)]
          /\ IsMaxOf(best_f, train_y_ei)

\* the acquisition rule of the second iteration was given the label found
\* in the first, larger than every initial label
C18_Witness ==
    /\ pc = "update_train" /\ iteration = 2
    /\ best_f = best_observed_ei[2] /\ best_f > best_observed_ei[1]
    /\ best_f = train_y_ei[Len(train_y_ei)]

\* C19: at every iteration boundary of a trial the GP pool and the random
\* pool have the same size, the initial size less the number of completed
\* iterations, and the GP trace and the random trace have the same length.
C19_BaselineParity ==
    (pc = "iter" /\ SplitDone) =>
        /\ Len(heldout_x_ei) = holdout_set_size - (iteration - 1)
        /\ Len(heldout_x_random) = Len(heldout_x_ei)
        /\ Len(heldout_y_random) = Len(heldout_y_ei)
        /\ Len(best_observed_ei) = Len(best_random)
        /\ Len(best_observed_ei) = iteration
        /\ Len(selected_ei) = Len(selected_random)

\* two iterations are complete: each policy has taken two rows, not the same
\* ones, and each trace has three entries
C19_Witness ==
    /\ pc = "iter" /\ iteration = 3 /\ holdout_set_size = 3
    /\ Len(heldout_x_ei) = 1 /\ Len(heldout_x_random) = 1
    /\ Len(best_observed_ei) = 3 /\ Len(best_random) = 3
    /\ Range(selected_ei) # Range(selected_random)


\* position j of the outputs is the label of the row at position j of the inputs
Paired(hx, hy) == Len(hx) = Len(hy) /\ \A j \in 1..Len(hx) : hy[j] = y[hx[j]]

\* new is old without its element at position k, the others in their order
Without(old, new, k) ==
    /\ Len(new) = Len(old) - 1
    /\ \A j \in 1..Len(new) : new[j] = IF j < k THEN old[j] ELSE old[j + 1]

\* one position is dropped from the inputs and the outputs alike
DropsOne(hx, hy, hx2, hy2) ==
    \E k \in 1..Len(hx) : Without(hx, hx2, k) /\ Without(hy, hy2, k)

\* C20: in both pools the inputs and the outputs have the same length and
\* position j of the outputs is the label of the row at position j of the
\* inputs; a removal drops the same position from both and keeps the others
\* in order; the label returned with a selected row is that row's label.
C20_PoolPairing ==
    /\ [] /\ Paired(heldout_x_ei, heldout_y_ei)
          /\ Paired(heldout_x_random, heldout_y_random)
          /\ new_x_ei # 0 => new_obj_ei = y[new_x_ei]
    /\ [][ /\ SelectStep =>
                DropsOne(heldout_x_ei, heldout_y_ei, heldout_x_ei', heldout_y_ei')
           /\ pc = "random" =>
                /\ DropsOne(heldout_x_random, heldout_y_random,
                            heldout_x_random', heldout_y_random')
                /\ next_random_best' = y[selected_random'[Len(selected_random')]]
         ]_vars

\* after two removals by each policy the row left in the GP pool and the row
\* left in the random pool differ, and so do their labels
C20_Witness ==
    /\ pc = "iter" /\ iteration = 3
    /\ Len(heldout_x_ei) = 1 /\ Len(heldout_x_random) = 1
    /\ heldout_x_ei[1] # heldout_x_random[1]
    /\ heldout_y_ei[1] # heldout_y_random[1]
    /\ heldout_y_ei[1] = y[heldout_x_ei[1]]

=============================================================================
